---- MODULE Spec2Model ----
(***************************************************************************)
(* Model of the three pipelines of forecasting_baselines:                  *)
(*   - the ACS puller            (src/src/acs_pull/pull.py),               *)
(*   - the population cleaner    (src/scripts/clean_population_data.py),   *)
(*   - the ACS aggregator        (src/src/acs_aggregation.py).             *)
(* The pipelines do not interact, so each has its own specification        *)
(* (SpecPull, SpecClean, SpecAgg) over its own variables; the variables of *)
(* the other pipelines stay idle.                                          *)
(***************************************************************************)
EXTENDS Integers, Sequences, FiniteSets, TLC

VARIABLES
    \* ---- puller ----
    argv,               \* sys.argv[1:], a sequence of tokens
    pc,                 \* position of the puller program
    mode,               \* which entry point __main__ dispatched to
    year,               \* the year being processed (loop variable)
    endYear,            \* last year of the run
    attempted,          \* years collect_year was called with, in call order
    task,               \* index into tasks of the (state, group) pair at hand
    attempt,            \* loop variable of "for attempt in range(3)"
    log,                \* attempts made for the pair logTask: outcome and sleeps
    logTask,            \* index of the pair log belongs to
    state_data,         \* per state: the groups merged into its frame ({} = None)
    last,               \* what the most recently finished year did
    \* ---- population cleaner ----
    cpc,                \* position of the cleaner's main()
    files,              \* the three input files: per file its rows
    popcols,            \* per file: the years it has a POPESTIMATE column for
    dfs,                \* per file: df_XX_final
    merged,             \* the frame merged
    result,             \* the rows written to city_population.csv
    \* ---- ACS aggregator ----
    apc,                \* position of aggregate_year
    raw,                \* the frame load_raw_data returns
    df,                 \* aggregate_year's df after the two filters
    aggregated_dfs,     \* aggregate_year's list of frames
    agg_result,         \* the frame aggregate_year returns
    \* ---- validate_output ----
    vpc,                \* position of validate_output
    raw_rows,           \* per year: the rows of the raw file, {} if there is none
    agg_rows,           \* per year: the rows of the aggregated file, {} if there is none
    vi,                 \* how many years of YEARS the loop has been through
    all_valid,          \* validate_output's all_valid
    report,             \* the lines validate_output printed
    \* ---- clean_col_name ----
    npc,                \* how often clean_col_name has been applied
    nin,                \* the column name given to clean_col_name
    nout,               \* clean_col_name(nin)
    nagain,             \* clean_col_name(nout)
    \* ---- collect_year post-processing ----
    ppc,                \* position in the post-processing of collect_year
    combined,           \* the frame result after the states are combined
    post,               \* the frame result as post-processed so far
    \* ---- per-state accumulation of collect_year ----
    mpc,                \* position in the accumulation for one state
    existing_df,        \* state_data[state_fips]: {} for None, else {frame}
    merged_in,          \* the frames the groups returned so far, in order
    \* ---- load_and_filter_cities: reading the file ----
    lpc,                \* position in load_and_filter_cities
    csv_bytes,          \* the bytes of the file, {} if there is no file
    enc_i,              \* index of the encoding the loop is at
    tried,              \* the encodings pd.read_csv was called with, in order
    df_enc              \* the encoding df was read with, "" while df is unbound

pullVars == <<argv, pc, mode, year, endYear, attempted,
              task, attempt, log, logTask, state_data, last>>

cleanVars == <<cpc, files, popcols, dfs, merged, result>>

aggVars == <<apc, raw, df, aggregated_dfs, agg_result>>

valVars == <<vpc, raw_rows, agg_rows, vi, all_valid, report>>

nameVars == <<npc, nin, nout, nagain>>

postVars == <<ppc, combined, post>>

mergeVars == <<mpc, existing_df, merged_in>>

loadVars == <<lpc, csv_bytes, enc_i, tried, df_enc>>

vars == <<pullVars, cleanVars, aggVars, valVars, nameVars, postVars, mergeVars,
         loadVars>>

\* What a pipeline leaves alone: the variables of the other pipelines.
notPull == <<cleanVars, aggVars, valVars, nameVars, postVars, mergeVars, loadVars>>
notClean == <<pullVars, aggVars, valVars, nameVars, postVars, mergeVars, loadVars>>
notAgg == <<pullVars, cleanVars, valVars, nameVars, postVars, mergeVars, loadVars>>
notVal == <<pullVars, cleanVars, aggVars, nameVars, postVars, mergeVars, loadVars>>
notName == <<pullVars, cleanVars, aggVars, valVars, postVars, mergeVars, loadVars>>
notPost == <<pullVars, cleanVars, aggVars, valVars, nameVars, mergeVars, loadVars>>
notMerge == <<pullVars, cleanVars, aggVars, valVars, nameVars, postVars, loadVars>>
notLoad == <<pullVars, cleanVars, aggVars, valVars, nameVars, postVars, mergeVars>>

\* The values of a pipeline's variables while another pipeline runs.
IdlePull ==
    /\ argv = <<>> /\ pc = "idle" /\ mode = "none" /\ year = 0 /\ endYear = 0
    /\ attempted = <<>> /\ task = 0 /\ attempt = 0 /\ log = <<>> /\ logTask = 0
    /\ state_data = <<>> /\ last = <<>>

IdleClean ==
    /\ cpc = "idle" /\ files = <<>> /\ popcols = <<>> /\ dfs = <<>>
    /\ merged = <<>> /\ result = <<>>

IdleAgg ==
    /\ apc = "idle" /\ raw = <<>> /\ df = <<>> /\ aggregated_dfs = <<>>
    /\ agg_result = <<>>

IdleVal ==
    /\ vpc = "idle" /\ raw_rows = <<>> /\ agg_rows = <<>> /\ vi = 0
    /\ all_valid = TRUE /\ report = <<>>

IdleName ==
    /\ npc = "idle" /\ nin = <<>> /\ nout = <<>> /\ nagain = <<>>

IdlePost ==
    /\ ppc = "idle" /\ combined = <<>> /\ post = <<>>

IdleMerge ==
    /\ mpc = "idle" /\ existing_df = <<>> /\ merged_in = <<>>

IdleLoad ==
    /\ lpc = "idle" /\ csv_bytes = <<>> /\ enc_i = 0 /\ tried = <<>> /\ df_enc = ""

(***************************************************************************)
(*                              ACS PULLER                                 *)
(***************************************************************************)

\* Bounds of the model: the number of ACS groups requested per state and the
\* length of the command line.
NGroups == 2
MaxArgs == 3

\* The first two of the 52 keys of STATE_FIPS, in dict order.
STATE_FIPS == <<"01", "02">>
\* The first NGroups entries of ACS_GROUPS.
ACS_GROUPS == SubSeq(<<"B01001", "B01003", "B02003", "B00001">>, 1, NGroups)

\* tasks = [(state_fips, group) for state_fips in STATE_FIPS for group in ACS_GROUPS]
NTasks == Len(STATE_FIPS) * Len(ACS_GROUPS)
TaskState(t) == STATE_FIPS[((t - 1) \div Len(ACS_GROUPS)) + 1]
TaskGroup(t) == ACS_GROUPS[((t - 1) % Len(ACS_GROUPS)) + 1]

\* Defaults of run_all_years / the --all branch of __main__.
DEFAULT_START == 2009
DEFAULT_END == 2024

\* for attempt in range(3)
MAX_ATTEMPTS == 3
\* time.sleep(0.3), in tenths of a second
RATE_LIMIT == 3

\* Command-line tokens: the flag and decimal year strings.
YearTokens == {"2023", "2024"}
Tokens == {"--all"} \cup YearTokens

\* int(token): the number a decimal string denotes; "--all" raises ValueError.
IntOf(tok) == CASE tok = "2023" -> 2023
                [] tok = "2024" -> 2024

IsInt(tok) == tok \in YearTokens

SeqsUpTo(S, n) == UNION {[1..k -> S] : k \in 0..n}

\* What one httpx.get / raise_for_status / response.json / pd.DataFrame
\* sequence can end in.
Outcomes == {"ok", "short", "malformed", "404", "http_err", "req_err", "json_err"}

NoYear == [year |-> 0, outcome |-> "none", written |-> {}]

InitPull ==
    /\ argv \in SeqsUpTo(Tokens, MaxArgs)
    /\ pc = "start"
    /\ mode = "none"
    /\ year = 0
    /\ endYear = 0
    /\ attempted = <<>>
    /\ task = 0
    /\ attempt = 0
    /\ log = <<>>
    /\ logTask = 0
    /\ state_data = <<>>
    /\ last = NoYear
    /\ IdleClean
    /\ IdleAgg
    /\ IdleVal
    /\ IdleName
    /\ IdlePost
    /\ IdleMerge
    /\ IdleLoad

\* Mutant of ArgEnd: the end year read from the start year's argument.
ArgEnd_WrongIndex(a) == IF Len(a) > 2 THEN IntOf(a[2]) ELSE DEFAULT_END

\* Mutant of Catches: run_all_years without its try/except.
Catches_Nothing(m) == FALSE

\* start = int(sys.argv[2]) if len(sys.argv) > 2 else 2009   (a = sys.argv[1:])
ArgStart(a) == IF Len(a) > 1 THEN IntOf(a[2]) ELSE DEFAULT_START
\* end = int(sys.argv[3]) if len(sys.argv) > 3 else 2024
ArgEnd(a) == IF Len(a) > 2 THEN IntOf(a[3]) ELSE DEFAULT_END

\* Is an exception that leaves collect_year or the save block caught by the
\* caller?  run_all_years wraps both in try/except Exception; run_single_year
\* has no handler.
Catches(m) == m = "all"

\* __main__: dispatch on sys.argv.
MainAll ==
    /\ pc = "start"
    /\ Len(argv) > 0
    /\ argv[1] = "--all"
    /\ IF /\ (Len(argv) > 1 => IsInt(argv[2]))
          /\ (Len(argv) > 2 => IsInt(argv[3]))
       THEN /\ mode' = "all"
            /\ year' = ArgStart(argv)
            /\ endYear' = ArgEnd(argv)
            /\ pc' = "loop"
       ELSE \* int() raises ValueError before run_all_years is called
            /\ mode' = "all"
            /\ pc' = "crashed"
            /\ UNCHANGED <<year, endYear>>
    /\ UNCHANGED <<argv, attempted, task, attempt, log,
                   logTask, state_data, last>>
    /\ UNCHANGED notPull

MainSingle ==
    /\ pc = "start"
    /\ Len(argv) > 0
    /\ argv[1] # "--all"
    /\ mode' = "single"
    /\ year' = IntOf(argv[1])
    /\ endYear' = IntOf(argv[1])
    /\ pc' = "loop"
    /\ UNCHANGED <<argv, attempted, task, attempt, log,
                   logTask, state_data, last>>
    /\ UNCHANGED notPull

MainUsage ==
    /\ pc = "start"
    /\ Len(argv) = 0
    /\ mode' = "usage"
    /\ pc' = "done"
    /\ UNCHANGED <<argv, year, endYear, attempted, task,
                   attempt, log, logTask, state_data, last>>
    /\ UNCHANGED notPull

\* Entry into collect_year(year): from run_single_year, or from the next
\* iteration of run_all_years' loop.  fetch_group_descriptions never raises and
\* its result only prefixes column labels, so it leaves no trace in this state.
BeginYear ==
    /\ pc = "loop"
    /\ year <= endYear
    /\ attempted' = Append(attempted, year)
    /\ task' = 1
    /\ attempt' = 0
    /\ log' = <<>>
    /\ logTask' = 0
    /\ state_data' = [i \in 1..Len(STATE_FIPS) |-> {}]
    /\ pc' = "collect"
    /\ UNCHANGED <<argv, mode, year, endYear, last>>
    /\ UNCHANGED notPull

Pow2(n) == IF n = 0 THEN 1 ELSE IF n = 1 THEN 2 ELSE 4

\* The sleep of the except clause an outcome lands in, in tenths of a second.
BackoffOf(o, a) ==
    IF o \in {"req_err", "json_err"} /\ a < MAX_ATTEMPTS - 1
    THEN <<10 * Pow2(a)>>
    ELSE <<>>

\* Mutant of EndsLoop: a 404 is retried like any other HTTP error status.
EndsLoop_Retry404(o, a) == o \in {"ok", "short"} \/ a = MAX_ATTEMPTS - 1

\* Does the attempt loop end after an attempt with outcome o at index a?
EndsLoop(o, a) == o \in {"ok", "short", "404"} \/ a = MAX_ATTEMPTS - 1

StateIndex(t) == ((t - 1) \div Len(ACS_GROUPS)) + 1

\* Mutant of MergeInto: a frame is merged whatever the attempts ended in.
MergeInto_Always(sd, t, o) ==
    [sd EXCEPT ![StateIndex(t)] = @ \cup {TaskGroup(t)}]

\* "Merge into state data": df is not None only for outcome "ok".
MergeInto(sd, t, o) ==
    IF o = "ok"
    THEN [sd EXCEPT ![StateIndex(t)] = @ \cup {TaskGroup(t)}]
    ELSE sd

\* One pass of the body of "for attempt in range(3)" for the pair at hand,
\* followed, when the loop ends, by the merge, the rate-limit sleep and the
\* step to the next pair.
Attempt(o) ==
    /\ pc = "collect"
    /\ task <= NTasks
    /\ logTask' = task
    /\ IF o = "malformed"
       THEN \* pd.DataFrame raises; no except clause of collect_year matches
            /\ log' = (IF attempt = 0 THEN <<>> ELSE log)
                         \o <<[out |-> o, slept |-> <<>>]>>
            /\ IF Catches(mode)
               THEN /\ last' = [year |-> year, outcome |-> "error", written |-> {}]
                    /\ year' = year + 1
                    /\ pc' = "loop"
               ELSE /\ pc' = "crashed"
                    /\ UNCHANGED <<last, year>>
            /\ UNCHANGED <<task, attempt, state_data>>
       ELSE IF EndsLoop(o, attempt)
       THEN /\ log' = (IF attempt = 0 THEN <<>> ELSE log)
                         \o <<[out |-> o,
                               slept |-> BackoffOf(o, attempt) \o <<RATE_LIMIT>>]>>
            /\ state_data' = MergeInto(state_data, task, o)
            /\ task' = task + 1
            /\ attempt' = 0
            /\ UNCHANGED <<pc, last, year>>
       ELSE /\ log' = (IF attempt = 0 THEN <<>> ELSE log)
                         \o <<[out |-> o, slept |-> BackoffOf(o, attempt)]>>
            /\ attempt' = attempt + 1
            /\ UNCHANGED <<pc, last, year, task, state_data>>
    /\ UNCHANGED <<argv, mode, endYear, attempted>>
    /\ UNCHANGED notPull

Request == \E o \in Outcomes : Attempt(o)

\* all_dfs of collect_year: the frames of the states that have one.
FrameEmpty(sd) == \A i \in DOMAIN sd : sd[i] = {}

\* The files run_single_year writes for a non-empty frame.
SingleYearFiles == <<"parquet", "csv">>
\* The files run_all_years writes for a non-empty frame.
AllYearsFiles == <<"parquet">>

FilesOf(m) == IF m = "single" THEN SingleYearFiles ELSE AllYearsFiles

Range(s) == {s[i] : i \in DOMAIN s}

\* End of collect_year (combine, post-process, return) and the save block of
\* its caller. nok is the number of writes that succeed before one raises.
FinishYear(nok) ==
    /\ pc = "collect"
    /\ task > NTasks
    /\ nok \in 0..Len(FilesOf(mode))
    /\ IF FrameEmpty(state_data)
       THEN /\ nok = Len(FilesOf(mode))
            /\ last' = [year |-> year, outcome |-> "empty", written |-> {}]
            /\ pc' = (IF mode = "all" THEN "loop" ELSE "done")
       ELSE IF nok = Len(FilesOf(mode))
       THEN /\ last' = [year |-> year, outcome |-> "saved",
                        written |-> Range(FilesOf(mode))]
            /\ pc' = (IF mode = "all" THEN "loop" ELSE "done")
       ELSE /\ last' = [year |-> year, outcome |-> "error",
                        written |-> Range(SubSeq(FilesOf(mode), 1, nok))]
            /\ pc' = (IF Catches(mode) THEN "loop" ELSE "crashed")
    /\ year' = year + 1
    /\ UNCHANGED <<argv, mode, endYear, attempted, task,
                   attempt, log, logTask, state_data>>
    /\ UNCHANGED notPull

Save == \E nok \in 0..2 : FinishYear(nok)

\* range(start, end + 1) is exhausted: run_all_years prints DONE and returns.
EndRun ==
    /\ pc = "loop"
    /\ mode = "all"
    /\ year > endYear
    /\ pc' = "done"
    /\ UNCHANGED <<argv, mode, year, endYear, attempted,
                   task, attempt, log, logTask, state_data, last>>
    /\ UNCHANGED notPull

NextPull ==
    \/ MainAll
    \/ MainSingle
    \/ MainUsage
    \/ BeginYear
    \/ Request
    \/ Save
    \/ EndRun

SpecPull == InitPull /\ [][NextPull]_vars

(***************************************************************************)
(*                        Claims about the puller                          *)
(***************************************************************************)

Failures == {"http_err", "req_err", "json_err"}

\* C1: for every (state, group) pair at most 3 requests are issued, and a 404
\* response ends the pair with that attempt: it is the pair's last request and
\* collect_year has moved on to the next pair (no exception left the loop).
C1_AtMostThreeRequests404Ends ==
    /\ Len(log) <= 3
    /\ \A i \in 1..Len(log) :
          log[i].out = "404" =>
              /\ i = Len(log)
              /\ task = logTask + 1
              /\ attempt = 0

\* A pair whose second request was answered 404.
C1_Witness ==
    /\ Len(log) = 2
    /\ log[1].out \in Failures
    /\ log[2].out = "404"
    /\ task = logTask + 1

\* C2: when all three attempts of a pair fail (request error, undecodable
\* JSON, non-404 HTTP error status) the step that makes the third attempt
\* raises nothing, leaves every state's frame as it was and moves on to the
\* next pair, which is still to be requested.
C2_GiveUpSilently ==
    [][ ( /\ log' # log
          /\ Len(log') = 3
          /\ \A i \in 1..3 : log'[i].out \in Failures )
        => ( /\ state_data' = state_data
             /\ pc' = "collect"
             /\ task' = task + 1
             /\ attempt' = 0
             /\ last' = last ) ]_vars

\* A pair given up after three failures of three different kinds, while the
\* frame of its state already holds an earlier group.
C2_Witness ==
    /\ Len(log) = 3
    /\ {log[i].out : i \in 1..3} = Failures
    /\ task = logTask + 1
    /\ pc = "collect"
    /\ state_data[StateIndex(logTask)] # {}

Max(a, b) == IF a >= b THEN a ELSE b

\* C3: run_all_years(start, end) calls collect_year for the years start, start+1,
\* ... in ascending order, reaches its end only after the call for every year up
\* to end, and no exception raised while collecting or saving ends the run.
C3_EveryYearAttempted ==
    (mode = "all") =>
        /\ \A i \in 1..Len(attempted) : attempted[i] = ArgStart(argv) + i - 1
        /\ (pc = "done" => Len(attempted) = Max(0, endYear - ArgStart(argv) + 1))
        /\ (pc = "crashed" => attempted = <<>>)

\* The year after one whose collection or save raised is being collected.
C3_Witness ==
    /\ mode = "all"
    /\ pc = "collect"
    /\ last.outcome = "error"
    /\ Len(attempted) >= 2
    /\ last.year = attempted[Len(attempted) - 1]

YearsFromTo(a, b) == [i \in 1..Max(0, b - a + 1) |-> a + i - 1]

\* C4 as stated: started with no arguments the puller pulls the default range
\* 2009..2024; with one year argument it pulls that year; with a start and an
\* end it pulls that range.
C4_Original ==
    (pc = "done") =>
        /\ (Len(argv) = 0 => attempted = YearsFromTo(2009, 2024))
        /\ (Len(argv) = 1 /\ IsInt(argv[1]) => attempted = <<IntOf(argv[1])>>)

\* C4 amended: with no arguments the puller prints its usage and pulls nothing;
\* the default range 2009..2024 is pulled when the only argument is --all; a
\* year as first argument pulls that single year (later arguments are ignored);
\* --all start end pulls start..end, and --all start pulls start..2024.
C4_Dispatch ==
    /\ (Len(argv) = 0 /\ pc # "start" => mode = "usage" /\ pc = "done" /\ attempted = <<>>)
    /\ (pc = "done" /\ Len(argv) > 0 =>
          IF argv[1] # "--all"
          THEN mode = "single" /\ attempted = <<IntOf(argv[1])>>
          ELSE /\ mode = "all"
               /\ (Len(argv) = 1 => attempted = YearsFromTo(2009, 2024))
               /\ (Len(argv) = 2 => attempted = YearsFromTo(IntOf(argv[2]), 2024))
               /\ (Len(argv) >= 3 =>
                     attempted = YearsFromTo(IntOf(argv[2]), IntOf(argv[3]))))

\* The run started with --all alone has finished its sixteen years.
C4_Witness ==
    /\ argv = <<"--all">>
    /\ pc = "done"
    /\ Len(attempted) = 16

\* C5: every year for which a non-empty frame was collected and the save block
\* ran to its end has both its parquet file and its CSV mirror written.
C5_ParquetAndCsv ==
    (last.outcome = "saved") => ({"parquet", "csv"} \subseteq last.written)

(***************************************************************************)
(*                         POPULATION CLEANER                              *)
(*                                                                         *)
(* Strings the code takes apart (NAME, City, State, key) are sequences of  *)
(* one-character strings.  A cell is a set: {} is null (None/NaN) and {v}  *)
(* holds v.  Year columns are named by their number.                       *)
(***************************************************************************)

\* Bounds of the model: the number of rows the three input files hold together,
\* and the length of a city name.
MaxRows == 3
MaxCityLen == 3

NA == {}
Some(v) == {v}
Get(x) == CHOOSE v \in x : TRUE

\* The characters of the model in code-point order, which is the order str
\* comparison (sort_values, the sort of an outer merge) goes by.
Alphabet == <<" ", "A", "B", "C", "D", "E", "F", "G", "H", "I", "J", "K", "L", "M", "N", "O", "P", "Q", "R", "S", "T", "U", "V", "W", "X", "Y", "Z",
             "_", "a", "b", "c", "d", "e", "f", "g", "h", "i", "j", "k", "l", "m", "n", "o", "p", "q", "r", "s", "t", "u", "v", "w", "x", "y", "z">>
CharRank(c) == CHOOSE i \in 1..Len(Alphabet) : Alphabet[i] = c

Min(a, b) == IF a <= b THEN a ELSE b

\* s < t for two strings.
StrLess(s, t) ==
    \E i \in 1..(Min(Len(s), Len(t)) + 1) :
        /\ \A j \in 1..(i - 1) : s[j] = t[j]
        /\ \/ i > Len(s) /\ i <= Len(t)
           \/ i <= Len(s) /\ i <= Len(t) /\ CharRank(s[i]) < CharRank(t[i])

\* a < b for two tuples of strings of the same length.
TupleLess(a, b) ==
    \E i \in 1..Len(a) :
        /\ \A j \in 1..(i - 1) : a[j] = b[j]
        /\ StrLess(a[i], b[i])

\* A stable sort of rows by the tuple of strings K gives for each.
SortBy(rows, K(_)) ==
    LET n == Len(rows)
        keys == [i \in 1..n |-> K(rows[i])]
        pos == [i \in 1..n |->
                   1 + Cardinality({j \in 1..n :
                           \/ keys[j] = keys[i] /\ j < i
                           \/ keys[j] # keys[i] /\ TupleLess(keys[j], keys[i])})]
    IN  [p \in 1..n |-> rows[CHOOSE i \in 1..n : pos[i] = p]]

RECURSIVE Flatten(_)
Flatten(ss) == IF ss = <<>> THEN <<>> ELSE Head(ss) \o Flatten(Tail(ss))

MapSeq(s, F(_)) == [i \in 1..Len(s) |-> F(s[i])]

STATE_ABBR ==
    "Alabama" :> <<"A", "L">>
    @@ "Alaska" :> <<"A", "K">>
    @@ "Arizona" :> <<"A", "Z">>
    @@ "Arkansas" :> <<"A", "R">>
    @@ "California" :> <<"C", "A">>
    @@ "Colorado" :> <<"C", "O">>
    @@ "Connecticut" :> <<"C", "T">>
    @@ "Delaware" :> <<"D", "E">>
    @@ "Florida" :> <<"F", "L">>
    @@ "Georgia" :> <<"G", "A">>
    @@ "Hawaii" :> <<"H", "I">>
    @@ "Idaho" :> <<"I", "D">>
    @@ "Illinois" :> <<"I", "L">>
    @@ "Indiana" :> <<"I", "N">>
    @@ "Iowa" :> <<"I", "A">>
    @@ "Kansas" :> <<"K", "S">>
    @@ "Kentucky" :> <<"K", "Y">>
    @@ "Louisiana" :> <<"L", "A">>
    @@ "Maine" :> <<"M", "E">>
    @@ "Maryland" :> <<"M", "D">>
    @@ "Massachusetts" :> <<"M", "A">>
    @@ "Michigan" :> <<"M", "I">>
    @@ "Minnesota" :> <<"M", "N">>
    @@ "Mississippi" :> <<"M", "S">>
    @@ "Missouri" :> <<"M", "O">>
    @@ "Montana" :> <<"M", "T">>
    @@ "Nebraska" :> <<"N", "E">>
    @@ "Nevada" :> <<"N", "V">>
    @@ "New Hampshire" :> <<"N", "H">>
    @@ "New Jersey" :> <<"N", "J">>
    @@ "New Mexico" :> <<"N", "M">>
    @@ "New York" :> <<"N", "Y">>
    @@ "North Carolina" :> <<"N", "C">>
    @@ "North Dakota" :> <<"N", "D">>
    @@ "Ohio" :> <<"O", "H">>
    @@ "Oklahoma" :> <<"O", "K">>
    @@ "Oregon" :> <<"O", "R">>
    @@ "Pennsylvania" :> <<"P", "A">>
    @@ "Rhode Island" :> <<"R", "I">>
    @@ "South Carolina" :> <<"S", "C">>
    @@ "South Dakota" :> <<"S", "D">>
    @@ "Tennessee" :> <<"T", "N">>
    @@ "Texas" :> <<"T", "X">>
    @@ "Utah" :> <<"U", "T">>
    @@ "Vermont" :> <<"V", "T">>
    @@ "Virginia" :> <<"V", "A">>
    @@ "Washington" :> <<"W", "A">>
    @@ "West Virginia" :> <<"W", "V">>
    @@ "Wisconsin" :> <<"W", "I">>
    @@ "Wyoming" :> <<"W", "Y">>
    @@ "District of Columbia" :> <<"D", "C">>
    @@ "Puerto Rico" :> <<"P", "R">>
\* df["SUMLEV"] == 162
SUMLEV_PLACE == 162
\* " city"
CitySuffix == <<" ", "c", "i", "t", "y">>

EndsWith(s, suf) ==
    /\ Len(s) >= Len(suf)
    /\ SubSeq(s, Len(s) - Len(suf) + 1, Len(s)) = suf

\* load_and_filter_cities: the rows of SUMLEV 162 whose NAME ends with " city".
load_and_filter_cities(rows) ==
    SelectSeq(rows, LAMBDA r : r.SUMLEV = SUMLEV_PLACE /\ EndsWith(r.NAME, CitySuffix))

extract_city_name(name) ==
    IF EndsWith(name, CitySuffix) THEN SubSeq(name, 1, Len(name) - 5) ELSE name

\* df["City"] + "_" + df["State"]
MakeKey(city, state) == city \o <<"_">> \o state

FileIds == {"00", "10", "20"}

\* years_00, years_10, years_20: the year columns kept of each file.
years_00 == 2000..2010
years_10 == 2010..2019
years_20 == 2020..2024
YearsKept(f) == CASE f = "00" -> years_00
                  [] f = "10" -> years_10
                  [] f = "20" -> years_20

Restrict(fn, S) == [y \in S |-> fn[y]]

\* df_XX_pop and df_XX_final of main(): City, State and key of every filtered
\* row, and the POPESTIMATE columns of the file's years.  Only df_00_final
\* carries City and State.
FinalFrame(f, rows, cols) ==
    LET kept == YearsKept(f) \cap cols
        Row(r) ==
            LET City == extract_city_name(r.NAME)
                State == STATE_ABBR[r.STNAME]
            IN  IF f = "00"
                THEN [key |-> MakeKey(City, State), City |-> Some(City),
                      State |-> Some(State), pop |-> Restrict(r.POP, kept)]
                ELSE [key |-> MakeKey(City, State), pop |-> Restrict(r.POP, kept)]
    IN  [years |-> kept, rows |-> MapSeq(load_and_filter_cities(rows), Row)]

\* merged.drop(columns=[y]) if y is a column of merged
DropYear(frame, y) ==
    IF y \in frame.years
    THEN [years |-> frame.years \ {y},
          rows |-> MapSeq(frame.rows,
                     LAMBDA r : [r EXCEPT !.pop = Restrict(@, frame.years \ {y})])]
    ELSE frame

NullsFor(S) == [y \in S |-> NA]

\* L.merge(R, on="key", how="outer"): every pair of a row of L and a row of R
\* with the same key gives one row; a row of either side without a partner
\* gives one row with nulls for the other side's columns; rows come in key order.
OuterMerge(L, R) ==
    LET keysL == {L.rows[i].key : i \in 1..Len(L.rows)}
        Expand(l) ==
            LET m == SelectSeq(R.rows, LAMBDA r : r.key = l.key)
            IN  IF m = <<>>
                THEN <<[l EXCEPT !.pop = @ @@ NullsFor(R.years)]>>
                ELSE MapSeq(m, LAMBDA r : [l EXCEPT !.pop = @ @@ r.pop])
        RightOnly(r) ==
            [key |-> r.key, City |-> NA, State |-> NA,
             pop |-> NullsFor(L.years) @@ r.pop]
        rows == Flatten(MapSeq(L.rows, Expand))
                  \o MapSeq(SelectSeq(R.rows, LAMBDA r : r.key \notin keysL), RightOnly)
    IN  [years |-> L.years \cup R.years,
         rows |-> SortBy(rows, LAMBDA r : <<r.key>>)]

\* The merge block of main(): 2010 is taken from the 2010s file and 2020 from
\* the 2020s file.
MergeAll(d) ==
    LET m1 == OuterMerge(DropYear(d["00"], 2010), d["10"])
    IN  OuterMerge(DropYear(m1, 2020), d["20"])

\* Mutant of RSplit: the key is split at its first underscore (split, not rsplit).
RSplit_First(s) ==
    LET idx == {i \in 1..Len(s) : s[i] = "_"}
    IN  IF idx = {}
        THEN <<s>>
        ELSE LET i == CHOOSE k \in idx : \A j \in idx : k <= j
             IN  <<SubSeq(s, 1, i - 1), SubSeq(s, i + 1, Len(s))>>

\* s.rsplit("_", 1): the parts before and after the last underscore of s, or s
\* alone when it has none.
RSplit(s) ==
    LET idx == {i \in 1..Len(s) : s[i] = "_"}
    IN  IF idx = {}
        THEN <<s>>
        ELSE LET i == CHOOSE k \in idx : \A j \in idx : j <= k
             IN  <<SubSeq(s, 1, i - 1), SubSeq(s, i + 1, Len(s))>>

\* The two merged.apply(...) calls that fill a null City and a null State.
BackfillRow(r) ==
    [r EXCEPT !.City = IF r.City = NA THEN Some(RSplit(r.key)[1]) ELSE @,
              !.State = IF r.State = NA THEN Some(RSplit(r.key)[2]) ELSE @]

\* row["key"].rsplit("_", 1)[1] raises IndexError for a key without underscore.
BackfillRaises(r) == r.State = NA /\ Len(RSplit(r.key)) < 2

\* year_cols = sorted(year_cols, key=int) is the ascending list of the year
\* columns S; HasPrev(S, y) says that y is not its first entry, and
\* PrevYear(S, y) is the entry before y (year_cols[i - 1] for year_cols[i] = y).
HasPrev(S, y) == \E z \in S : z < y
PrevYear(S, y) == CHOOSE z \in S : z < y /\ \A w \in S : w < y => w <= z

\* Floating-point values: a ratio num/den, NaN, or an infinity.
NaN == [kind |-> "nan", num |-> 0, den |-> 1]
PosInf == [kind |-> "inf", num |-> 0, den |-> 1]
NegInf == [kind |-> "-inf", num |-> 0, den |-> 1]
Ratio(n, d) == [kind |-> "num", num |-> n, den |-> d]

\* (merged[curr_year] - merged[prev_year]) / merged[prev_year] for one row:
\* float arithmetic, where null is NaN and a division by zero gives an
\* infinity, or NaN for 0/0.
YoY(cur, prev) ==
    IF cur = NA \/ prev = NA
    THEN NaN
    ELSE LET c == Get(cur)
             p == Get(prev)
         IN  IF p # 0 THEN Ratio(c - p, p)
             ELSE IF c - p = 0 THEN NaN
             ELSE IF c - p > 0 THEN PosInf
             ELSE NegInf

\* The yoy columns: one per year column after the first, each against the
\* year column before it in year_cols.
YoYRow(r, S) ==
    [y \in {z \in S : HasPrev(S, z)} |-> YoY(r.pop[y], r.pop[PrevYear(S, y)])]

\* result: City, State, the year columns and the yoy columns of every row,
\* sorted by City and State.
ResultOf(m) ==
    LET Row(r) == [City |-> r.City, State |-> r.State, pop |-> r.pop,
                   yoy |-> YoYRow(r, m.years)]
    IN  SortBy(MapSeq(m.rows, Row), LAMBDA r : <<Get(r.City), Get(r.State)>>)

\* ---- inputs ----

\* The POPESTIMATE columns of sub-est00int.csv, sub-est2020int.csv and
\* sub-est2024.csv.
FullCols == [f \in FileIds |-> CASE f = "00" -> 2000..2010
                                [] f = "10" -> 2010..2020
                                [] f = "20" -> 2020..2024]

\* The column sets tried: the real ones, and a 2010s file without 2015.
PopColChoices == {FullCols, [FullCols EXCEPT !["10"] = @ \ {2015}]}

Str_a == <<"a">>
Str_a_b == <<"a", "_", "b">>
Town == <<" ", "t", "o", "w", "n">>

\* The rows an input file is filled from: a name, a state, a summary level and
\* the population, which a row has in every year column of its file.
RowTemplates ==
    <<[SUMLEV |-> 162, NAME |-> Str_a \o CitySuffix, STNAME |-> "Ohio", v |-> NA],
      [SUMLEV |-> 162, NAME |-> Str_a \o CitySuffix, STNAME |-> "Ohio", v |-> Some(0)],
      [SUMLEV |-> 162, NAME |-> Str_a \o CitySuffix, STNAME |-> "Ohio", v |-> Some(100)],
      [SUMLEV |-> 162, NAME |-> Str_a \o CitySuffix, STNAME |-> "Ohio", v |-> Some(110)],
      [SUMLEV |-> 162, NAME |-> Str_a_b \o CitySuffix, STNAME |-> "Ohio", v |-> Some(0)],
      [SUMLEV |-> 162, NAME |-> Str_a_b \o CitySuffix, STNAME |-> "Ohio", v |-> Some(100)],
      [SUMLEV |-> 162, NAME |-> Str_a \o CitySuffix, STNAME |-> "Texas", v |-> Some(100)],
      [SUMLEV |-> 162, NAME |-> Str_a \o Town, STNAME |-> "Ohio", v |-> Some(100)],
      [SUMLEV |-> 157, NAME |-> Str_a \o CitySuffix, STNAME |-> "Ohio", v |-> Some(100)]>>

MkRow(t, f, cols) ==
    [SUMLEV |-> t.SUMLEV, NAME |-> t.NAME, STNAME |-> t.STNAME,
     POP |-> [y \in cols[f] |-> t.v]]

\* The contents of one file of up to n rows, as indices into RowTemplates; the
\* order of the rows of a file is fixed, the output being sorted.
FileContents(n) ==
    {s \in SeqsUpTo(1..Len(RowTemplates), n) :
        \A i \in 1..(Len(s) - 1) : s[i] <= s[i + 1]}

\* Three files of the rows s00, s10 and s20.
FilesOfRows(s00, s10, s20, cols) ==
    [f \in FileIds |->
        MapSeq(CASE f = "00" -> s00 [] f = "10" -> s10 [] f = "20" -> s20,
               LAMBDA p : MkRow(RowTemplates[p], f, cols))]

CityNames == SeqsUpTo({"a", "_"}, MaxCityLen)

\* One city of any name and any state of STATE_ABBR, in one file.
FilesOfOne(f, city, stname, cols) ==
    [g \in FileIds |->
        IF g = f
        THEN <<MkRow([SUMLEV |-> 162, NAME |-> city \o CitySuffix,
                      STNAME |-> stname, v |-> Some(100)], f, cols)>>
        ELSE <<>>]

InitClean ==
    /\ IdlePull
    /\ IdleAgg
    /\ IdleVal
    /\ IdleName
    /\ IdlePost
    /\ IdleMerge
    /\ IdleLoad
    /\ cpc = "start"
    /\ popcols \in PopColChoices
    /\ \/ \E s00 \in FileContents(MaxRows) :
          \E s10 \in FileContents(MaxRows - Len(s00)) :
          \E s20 \in FileContents(MaxRows - Len(s00) - Len(s10)) :
              files = FilesOfRows(s00, s10, s20, popcols)
       \/ \E f \in FileIds, city \in CityNames, st \in DOMAIN STATE_ABBR :
              files = FilesOfOne(f, city, st, popcols)
    /\ dfs = <<>>
    /\ merged = <<>>
    /\ result = <<>>

\* main(): load the three files and build df_00_final, df_10_final, df_20_final.
LoadFiles ==
    /\ cpc = "start"
    /\ dfs' = [f \in FileIds |-> FinalFrame(f, files[f], popcols[f])]
    /\ cpc' = "loaded"
    /\ UNCHANGED <<files, popcols, merged, result>>
    /\ UNCHANGED notClean

\* main(): the two outer merges.
MergeFiles ==
    /\ cpc = "loaded"
    /\ merged' = MergeAll(dfs)
    /\ cpc' = "merged"
    /\ UNCHANGED <<files, popcols, dfs, result>>
    /\ UNCHANGED notClean

\* main(): fill City and State from the key.
Backfill ==
    /\ cpc = "merged"
    /\ IF \E i \in 1..Len(merged.rows) : BackfillRaises(merged.rows[i])
       THEN /\ cpc' = "crashed"
            /\ UNCHANGED merged
       ELSE /\ merged' = [merged EXCEPT !.rows = MapSeq(@, BackfillRow)]
            /\ cpc' = "filled"
    /\ UNCHANGED <<files, popcols, dfs, result>>
    /\ UNCHANGED notClean

\* main(): the yoy columns, the column order, the sort and to_csv.
WriteResult ==
    /\ cpc = "filled"
    /\ result' = ResultOf(merged)
    /\ cpc' = "done"
    /\ UNCHANGED <<files, popcols, dfs, merged>>
    /\ UNCHANGED notClean

NextClean ==
    \/ LoadFiles
    \/ MergeFiles
    \/ Backfill
    \/ WriteResult

SpecClean == InitClean /\ [][NextClean]_vars

(***************************************************************************)
(*                   Claims about the population cleaner                   *)
(***************************************************************************)

KeysOf(frame) == {frame.rows[i].key : i \in 1..Len(frame.rows)}

\* The keys occurring in any of the three filtered input files.
InputKeys == UNION {KeysOf(dfs[f]) : f \in FileIds}

ResultKey(r) == MakeKey(Get(r.City), Get(r.State))

\* C6: the output has exactly one row per distinct City+State key occurring in
\* any of the three filtered input files, also when a key occurs more than once
\* within a file.
C6_OneRowPerKey ==
    (cpc = "done") =>
        /\ Len(result) = Cardinality(InputKeys)
        /\ \A k \in InputKeys :
              Cardinality({i \in 1..Len(result) : ResultKey(result[i]) = k}) = 1

\* 0.10 as a ratio.
IsTenth(x) == x.kind = "num" /\ x.num * 10 = x.den

\* C7: whenever the previous-year value is 0 or null the yoy value is null/NaN
\* (never an infinity or another number), and for previous 100 and current 110
\* it is 0.10.
C7_YoYNullOnZero ==
    (cpc = "done") =>
        \A i \in 1..Len(result) : \A y \in DOMAIN result[i].yoy :
            LET prev == result[i].pop[PrevYear(DOMAIN result[i].pop, y)]
                cur == result[i].pop[y]
            IN  /\ (prev = NA \/ prev = Some(0)) => result[i].yoy[y] = NaN
                /\ (prev = Some(100) /\ cur = Some(110)) => IsTenth(result[i].yoy[y])

\* The year columns a file contributes to merged: 2010 of the 2000s file is
\* dropped before the first merge.
Contributed(f) == IF f = "00" THEN dfs[f].years \ {2010} ELSE dfs[f].years

\* C8: a city of a later file whose key does not occur in the 2000s file has a
\* row in the output; each of its rows has City and State equal to the city
\* name and the state abbreviation its key was built from, and null in every
\* year column of every file the key does not occur in.
C8_LaterOnlyCity ==
    (cpc = "done") =>
        \A f \in {"10", "20"} :
            LET kept == load_and_filter_cities(files[f])
            IN  \A n \in 1..Len(kept) :
                LET c == extract_city_name(kept[n].NAME)
                    st == STATE_ABBR[kept[n].STNAME]
                    k == MakeKey(c, st)
                    mine == {i \in 1..Len(result) :
                                /\ result[i].City = Some(c)
                                /\ result[i].State = Some(st)}
                IN  (k \notin KeysOf(dfs["00"])) =>
                        /\ mine # {}
                        /\ RSplit(k) = <<c, st>>
                        /\ \A i \in mine : \A g \in FileIds :
                              (k \notin KeysOf(dfs[g])) =>
                                  \A y \in Contributed(g) : result[i].pop[y] = NA

\* A city with an underscore in its name that only the 2020s file has, written
\* with its name, its state, nulls before 2020 and its population from 2020 on.
C8_Witness ==
    /\ cpc = "done"
    /\ dfs["00"].rows = <<>>
    /\ dfs["10"].rows = <<>>
    /\ \E i \in 1..Len(result) :
          /\ result[i].City = Some(Str_a_b)
          /\ result[i].State = Some(<<"O", "H">>)
          /\ 2000 \in DOMAIN result[i].pop
          /\ \A y \in DOMAIN result[i].pop : y < 2020 => result[i].pop[y] = NA
          /\ result[i].pop[2020] = Some(100)

(***************************************************************************)
(*                             ACS AGGREGATOR                              *)
(***************************************************************************)

\* Bounds of the model: the rows of a raw frame and its columns besides the
\* identifier columns.
MaxAggRows == 2
MaxAggCols == 2

\* A column name is a sequence of pieces of text, and Python's "p in c" is
\* "the pieces of p occur in c one after the other". The names below are cut
\* wherever one of them can overlap another (after "total", before a grade's
\* digits, around "race", "annotation" and "_estimate_"), so that for any two
\* of them containment of the pieces is containment of the text.
Contains(c, p) ==
    \E i \in 0..(Len(c) - Len(p)) : SubSeq(c, i + 1, i + Len(p)) = p

\* str.lower, piece by piece. The puller's clean_col_name writes every column
\* name but the identifiers in lower case.
LowerPiece(t) ==
    CASE t = "Race" -> "race"
      [] t = "Margin" -> "margin"
      [] t = "Annotation" -> "annotation"
      [] OTHER -> t

Lower(c) == [i \in DOMAIN c |-> LowerPiece(c[i])]

\* f"{i}" for the grade numbers.
Digit == <<"1", "2", "3", "4", "5", "6", "7", "8", "9">>

Dec(i) ==
    IF i < 10 THEN <<Digit[i]>>
    ELSE <<Digit[i \div 10]>>
         \o (IF i % 10 = 0 THEN <<"0">> ELSE <<Digit[i % 10]>>)

ID_COLS == << <<"place_fips">>, <<"place_name">>, <<"state_fips">>, <<"year">> >>

EST == "_estimate_"

\* aggregate_school_enrollment's prefix and the names it builds from it.
SE == "school_enrollment_by_detailed_level_of_school_for_the_population_3_years_and_over"

prefix == <<SE, EST, "total">>

Enrolled == prefix \o <<"_enrolled_in_school">>

Grade(i) == Enrolled \o <<"_enrolled_in_grade_">> \o Dec(i)

\* extract_other_variables' hours_map patterns.
HOURS == "mean_usual_hours_worked_in_the_past_12_months_for_workers_16_to_64_years"

hours_total == <<HOURS, EST, "mean_usual_hours_total">>

\* A frame: its index labels, its column names in order, and per column the
\* cells in index order. A Series of a frame is the sequence of its cells.
Select(f, cols) ==
    [index |-> f.index, columns |-> cols,
     col |-> [n \in Range(cols) |-> f.col[n]]]

\* df[ID_COLS + estimate_cols]
filter_estimate_columns(f) ==
    LET estimate_cols ==
            SelectSeq(f.columns,
                      LAMBDA c : /\ Contains(c, <<EST>>)
                                 /\ ~Contains(Lower(c), <<"margin">>)
                                 /\ ~Contains(Lower(c), <<"annotation">>))
    IN  Select(f, ID_COLS \o estimate_cols)

exclude_race_columns(f) ==
    Select(f, SelectSeq(f.columns, LAMBDA c : ~Contains(Lower(c), <<"race">>)))

\* pd.Series(0, index=df.index)
Zeros(f) == [i \in 1..Len(f.index) |-> Some(0)]

\* A column taken as it is, nulls included.
fillna0_Keep(s) == s

\* Series.fillna(0)
fillna0(s) == [i \in DOMAIN s |-> IF s[i] = NA THEN Some(0) ELSE s[i]]

\* Series + Series over one index: null if either cell is null.
AddSeries(a, b) ==
    [i \in DOMAIN a |-> IF a[i] = NA \/ b[i] = NA THEN NA
                        ELSE Some(Get(a[i]) + Get(b[i]))]

get_col(f, pattern) ==
    LET matches == SelectSeq(f.columns, LAMBDA c : Contains(c, pattern))
    IN  IF matches # <<>> THEN fillna0(f.col[matches[1]]) ELSE Zeros(f)

safe_sum(f, patterns) ==
    LET RECURSIVE acc(_)
        acc(k) == IF k = 0 THEN Zeros(f)
                  ELSE AddSeries(acc(k - 1), get_col(f, patterns[k]))
    IN  acc(Len(patterns))

\* A column of an aggregator's result: its name and how it is computed, with
\* get_col from one pattern or with safe_sum from a list of patterns.
OneCol(name, pattern) ==
    [name |-> <<name>>, how |-> "get_col", patterns |-> <<pattern>>]

SumCol(name, patterns) ==
    [name |-> <<name>>, how |-> "safe_sum", patterns |-> patterns]

below_hs_patterns ==
    << Enrolled \o <<"_enrolled_in_nursery_school_preschool">>,
       Enrolled \o <<"_enrolled_in_kindergarten">> >>
    \o [i \in 1..8 |-> Grade(i)]

hs_patterns == [i \in 1..4 |-> Grade(i + 8)]

\* The columns of aggregate_school_enrollment, in assignment order.
SchoolColumns ==
    << OneCol("school_enrollment_total", prefix),
       OneCol("school_enrollment_enrolled", Enrolled),
       OneCol("school_enrollment_not_enrolled",
              prefix \o <<"_not_enrolled_in_school">>),
       SumCol("school_enrollment_below_high_school", below_hs_patterns),
       SumCol("school_enrollment_high_school", hs_patterns),
       OneCol("school_enrollment_undergraduate",
              Enrolled \o <<"_enrolled_in_college_undergraduate_years">>),
       OneCol("school_enrollment_graduate",
              Enrolled \o <<"_graduate_or_professional_school">>) >>

QUINTILES == "mean_household_income_of_quintiles"

bachelors_prefix ==
    <<"total_fields_of_bachelor_s_degrees_reported", EST, "total">>

\* The columns of extract_other_variables, in assignment order.
OtherColumns ==
    << OneCol("total_population", <<"total_population", EST, "total">>),
       OneCol("gini_index",
              <<"gini_index_of_income_inequality", EST, "gini_index">>),
       OneCol("income_quintile_lowest", <<QUINTILES, EST, "quintile_means_lowest_quintile">>),
       OneCol("income_quintile_second", <<QUINTILES, EST, "quintile_means_second_quintile">>),
       OneCol("income_quintile_third", <<QUINTILES, EST, "quintile_means_third_quintile">>),
       OneCol("income_quintile_fourth", <<QUINTILES, EST, "quintile_means_fourth_quintile">>),
       OneCol("income_quintile_highest", <<QUINTILES, EST, "quintile_means_highest_quintile">>),
       OneCol("income_quintile_top_5_pct", <<QUINTILES, EST, "top_5_percent">>),
       OneCol("hours_worked_total", hours_total),
       OneCol("hours_worked_male", hours_total \o <<"_male">>),
       OneCol("hours_worked_female", hours_total \o <<"_female">>),
       OneCol("bachelors_degree_total", bachelors_prefix),
       OneCol("bachelors_degree_computers_math_stats",
              bachelors_prefix \o <<"_science_and_engineering_computers_mathematics_and_statistics">>),
       OneCol("bachelors_degree_bio_ag_env",
              bachelors_prefix \o <<"_science_and_engineering_biological_agricultural_and_environmental_sciences">>),
       OneCol("bachelors_degree_physical_sciences",
              bachelors_prefix \o <<"_science_and_engineering_physical_and_related_sciences">>),
       OneCol("bachelors_degree_psychology",
              bachelors_prefix \o <<"_science_and_engineering_psychology">>),
       OneCol("bachelors_degree_social_sciences",
              bachelors_prefix \o <<"_science_and_engineering_social_sciences">>),
       OneCol("bachelors_degree_engineering",
              bachelors_prefix \o <<"_science_and_engineering_engineering">>),
       OneCol("bachelors_degree_multidisciplinary",
              bachelors_prefix \o <<"_science_and_engineering_multidisciplinary_studies">>),
       OneCol("bachelors_degree_stem_related",
              bachelors_prefix \o <<"_science_and_engineering_related_fields">>),
       OneCol("bachelors_degree_business",
              bachelors_prefix \o <<"_business">>),
       OneCol("bachelors_degree_education",
              bachelors_prefix \o <<"_education">>),
       OneCol("bachelors_degree_literature_languages",
              bachelors_prefix \o <<"_arts_humanities_and_other_literature_and_languages">>),
       OneCol("bachelors_degree_liberal_arts_history",
              bachelors_prefix \o <<"_arts_humanities_and_other_liberal_arts_and_history">>),
       OneCol("bachelors_degree_visual_performing_arts",
              bachelors_prefix \o <<"_arts_humanities_and_other_visual_and_performing_arts">>),
       OneCol("bachelors_degree_communications",
              bachelors_prefix \o <<"_arts_humanities_and_other_communications">>),
       OneCol("bachelors_degree_other",
              bachelors_prefix \o <<"_arts_humanities_and_other_other">>) >>

ColumnValue(f, c) ==
    IF c.how = "safe_sum" THEN safe_sum(f, c.patterns)
    ELSE get_col(f, c.patterns[1])

\* result = pd.DataFrame(index=df.index); result[name] = ... for each column.
Build(f, columns) ==
    [index |-> f.index,
     columns |-> [i \in DOMAIN columns |-> columns[i].name],
     col |-> [n \in {columns[i].name : i \in DOMAIN columns} |->
                ColumnValue(f, columns[CHOOSE i \in DOMAIN columns :
                                          columns[i].name = n])]]

aggregate_school_enrollment(f) == Build(f, SchoolColumns)

extract_other_variables(f) == Build(f, OtherColumns)

\* The labels of a set of index labels in ascending order.
RECURSIVE SortedLabels(_)
SortedLabels(S) ==
    IF S = {} THEN <<>>
    ELSE LET m == CHOOSE x \in S : \A y \in S : x <= y
         IN  <<m>> \o SortedLabels(S \ {m})

\* Stacking the frames' rows under one another instead of aligning them.
Concat_Rows(frames) ==
    LET columns == Flatten([i \in DOMAIN frames |-> frames[i].columns])
    IN  [index |-> Flatten([i \in DOMAIN frames |-> frames[i].index]),
         columns |-> columns,
         col |-> [n \in Range(columns) |->
                    Flatten([i \in DOMAIN frames |->
                        IF n \in Range(frames[i].columns)
                        THEN frames[i].col[n]
                        ELSE [p \in DOMAIN frames[i].index |-> NA]])]]

\* pd.concat(frames, axis=1): the columns side by side, rows aligned on the
\* index labels; equal indexes are kept as they are, unequal ones are united.
Concat(frames) ==
    LET same == \A i \in DOMAIN frames : frames[i].index = frames[1].index
        index == IF same THEN frames[1].index
                 ELSE SortedLabels(UNION {Range(frames[i].index) :
                                            i \in DOMAIN frames})
        columns == Flatten([i \in DOMAIN frames |-> frames[i].columns])
        owner(n) == frames[CHOOSE i \in DOMAIN frames :
                              n \in Range(frames[i].columns)]
        cell(f, n, l) ==
            IF \E p \in DOMAIN f.index : f.index[p] = l
            THEN f.col[n][CHOOSE p \in DOMAIN f.index : f.index[p] = l]
            ELSE NA
    IN  [index |-> index,
         columns |-> columns,
         col |-> [n \in Range(columns) |->
                    [p \in DOMAIN index |-> cell(owner(n), n, index[p])]]]

\* The columns a raw file may hold besides the identifiers: three grades and
\* two hours columns of the estimates, an annotation column and a race column.
RawColumnChoices ==
    << Grade(1), Grade(10), Grade(9),
       hours_total, hours_total \o <<"_male">>,
       <<SE, "_", "annotation", "_of", EST, "total">>,
       <<"detailed_", "race", EST, "total">> >>

\* The value of a raw cell: distinct per column within a row, so that a sum
\* tells which columns went into it.
Weight == <<1, 2, 4, 8, 16, 32, 64>>

RawValue(r, u) == r * Weight[u]

PlaceIds == {"0100100", "0100200"}

\* The orders in which a raw file may hold some of the columns.
ColumnOrders ==
    {cs \in SeqsUpTo(DOMAIN RawColumnChoices, MaxAggCols) :
        \A i, j \in DOMAIN cs : i # j => cs[i] # cs[j]}

\* The frame read from a raw file written with index=False: a RangeIndex, the
\* identifier columns, the columns cs, and a null in cell nc (none for <<0, 0>>).
RawFrame(ids, cs, nc) ==
    LET rows == DOMAIN ids
        columns == ID_COLS \o [k \in DOMAIN cs |-> RawColumnChoices[cs[k]]]
    IN  [index |-> [i \in rows |-> i - 1],
         columns |-> columns,
         col |-> [n \in Range(columns) |->
            CASE n = <<"place_fips">> -> [i \in rows |-> Some(ids[i])]
              [] n = <<"place_name">> -> [i \in rows |-> Some(<<ids[i], "city">>)]
              [] n = <<"state_fips">> -> [i \in rows |-> Some("01")]
              [] n = <<"year">> -> [i \in rows |-> Some(2023)]
              [] OTHER ->
                    LET k == CHOOSE k \in DOMAIN cs : RawColumnChoices[cs[k]] = n
                    IN  [i \in rows |-> IF nc = <<i, k>> THEN NA
                                        ELSE Some(RawValue(i, cs[k]))]]]

InitAgg ==
    /\ IdlePull
    /\ IdleClean
    /\ IdleVal
    /\ IdleName
    /\ IdlePost
    /\ IdleMerge
    /\ IdleLoad
    /\ apc = "start"
    /\ \E ids \in SeqsUpTo(PlaceIds, MaxAggRows) : \E cs \in ColumnOrders :
          \E nc \in {<<0, 0>>} \cup ((DOMAIN ids) \X (DOMAIN cs)) :
              raw = RawFrame(ids, cs, nc)
    /\ df = <<>>
    /\ aggregated_dfs = <<>>
    /\ agg_result = <<>>

\* aggregate_year: load and filter.
LoadAndFilter ==
    /\ apc = "start"
    /\ df' = exclude_race_columns(filter_estimate_columns(raw))
    /\ apc' = "filtered"
    /\ UNCHANGED <<raw, aggregated_dfs, agg_result>>
    /\ UNCHANGED notAgg

\* aggregate_year: apply the aggregations. The frames of the other seven
\* aggregators are built like the two here, by pd.DataFrame(index=df.index)
\* and assignments of get_col / safe_sum / df[col].fillna(0) columns.
ApplyAggregations ==
    /\ apc = "filtered"
    /\ aggregated_dfs' = << Select(df, ID_COLS),
                            aggregate_school_enrollment(df),
                            extract_other_variables(df) >>
    /\ apc' = "aggregated"
    /\ UNCHANGED <<raw, df, agg_result>>
    /\ UNCHANGED notAgg

\* aggregate_year: combine all and return.
Combine ==
    /\ apc = "aggregated"
    /\ agg_result' = Concat(aggregated_dfs)
    /\ apc' = "done"
    /\ UNCHANGED <<raw, df, aggregated_dfs>>
    /\ UNCHANGED notAgg

NextAgg == LoadAndFilter \/ ApplyAggregations \/ Combine

SpecAgg == InitAgg /\ [][NextAgg]_vars

(***************************************************************************)
(*                     Claims about the ACS aggregator                     *)
(***************************************************************************)

RECURSIVE SumSeq(_)
SumSeq(s) == IF s = <<>> THEN 0 ELSE Head(s) + SumSeq(Tail(s))

\* What a column named exactly n gives row i of the raw frame: its value,
\* or 0 when the cell is null or the raw frame has no such column.
Contribution(n, i) ==
    IF n \in Range(raw.columns) /\ raw.col[n][i] # NA
    THEN Get(raw.col[n][i])
    ELSE 0

\* The buckets summed from several source columns.
Buckets ==
    {c \in Range(SchoolColumns) \cup Range(OtherColumns) : c.how = "safe_sum"}

\* C9: for every bucket and every row, the bucket's value is the sum of the
\* source columns that the bucket's mapping names and that the input frame
\* holds; an absent mapped column adds 0 and no other column adds anything,
\* in particular not one whose name only contains a mapped name (grade_10 for
\* grade_1).
C9_BucketSums ==
    (apc = "done") =>
        \A c \in Buckets : \A i \in DOMAIN raw.index :
            agg_result.col[c.name][i] =
                Some(SumSeq([k \in DOMAIN c.patterns |->
                                Contribution(c.patterns[k], i)]))

\* C10: aggregate_year returns as many rows as the raw frame has, in the raw
\* frame's order: the four identifier columns of the output row at a position
\* are those of the raw row at that position.
C10_RowIdentity ==
    (apc = "done") =>
        /\ Len(agg_result.index) = Len(raw.index)
        /\ \A n \in Range(ID_COLS) :
              /\ n \in Range(agg_result.columns)
              /\ Len(agg_result.col[n]) = Len(raw.index)
              /\ \A i \in DOMAIN raw.index :
                    agg_result.col[n][i] = raw.col[n][i]

\* Two rows of two different places, the second place first, with a column
\* that is aggregated and one that is filtered out, returned in that order.
C10_Witness ==
    /\ apc = "done"
    /\ raw.col[<<"place_fips">>] = <<Some("0100200"), Some("0100100")>>
    /\ Grade(1) \in Range(raw.columns)
    /\ \E n \in Range(raw.columns) : Contains(n, <<"race">>)
    /\ agg_result.col[<<"place_fips">>] = raw.col[<<"place_fips">>]
    /\ agg_result.col[<<"school_enrollment_below_high_school">>][2] = Some(2)

(***************************************************************************)
(*                            validate_output                              *)
(***************************************************************************)

\* Bound of the model: the number of years, from the start of YEARS, whose
\* files vary; the files of the later years are all there with equal rows.
MaxVaried == 2

YEARS == SelectSeq([i \in 1..16 |-> 2008 + i], LAMBDA y : y # 2020)

\* A file: NA if it does not exist, else its number of rows.
FileChoices == {NA, Some(1), Some(2)}

DirChoices ==
    {[y \in Range(YEARS) |->
        LET i == CHOOSE i \in DOMAIN YEARS : YEARS[i] = y
        IN  IF i <= MaxVaried THEN v[i] ELSE Some(1)] :
     v \in [1..MaxVaried -> FileChoices]}

\* validate_output(verbose=True), as __main__ calls it, at the top of its loop.
InitVal ==
    /\ IdlePull
    /\ IdleClean
    /\ IdleAgg
    /\ IdleName
    /\ IdlePost
    /\ IdleMerge
    /\ IdleLoad
    /\ vpc = "loop"
    /\ raw_rows \in DirChoices
    /\ agg_rows \in DirChoices
    /\ vi = 0
    /\ all_valid = TRUE
    /\ report = <<>>

\* One pass of "for year in YEARS". pd.read_parquet of a path that does not
\* exist raises FileNotFoundError, which nothing in validate_output catches.
ValidateYear ==
    /\ vpc = "loop"
    /\ vi < Len(YEARS)
    /\ LET y == YEARS[vi + 1]
       IN  IF agg_rows[y] = NA
           THEN /\ report' = Append(report, [year |-> y, line |-> "MISSING"])
                /\ all_valid' = FALSE
                /\ vi' = vi + 1
                /\ vpc' = "loop"
           ELSE IF raw_rows[y] = NA
           THEN /\ vpc' = "raised"
                /\ UNCHANGED <<report, all_valid, vi>>
           ELSE IF raw_rows[y] # agg_rows[y]
           THEN /\ report' = Append(report, [year |-> y, line |-> "mismatch"])
                /\ all_valid' = FALSE
                /\ vi' = vi + 1
                /\ vpc' = "loop"
           ELSE /\ report' = Append(report, [year |-> y, line |-> "OK"])
                /\ vi' = vi + 1
                /\ vpc' = "loop"
                /\ UNCHANGED all_valid
    /\ UNCHANGED <<raw_rows, agg_rows>>
    /\ UNCHANGED notVal

\* return all_valid
ValidateReturn ==
    /\ vpc = "loop"
    /\ vi = Len(YEARS)
    /\ vpc' = "returned"
    /\ UNCHANGED <<raw_rows, agg_rows, vi, all_valid, report>>
    /\ UNCHANGED notVal

NextVal == ValidateYear \/ ValidateReturn

SpecVal == InitVal /\ [][NextVal]_vars

\* C11: validate_output never raises, whatever raw and aggregated files
\* exist; it goes through every year of YEARS, printing a line for each, and
\* returns True exactly when every year has an aggregated file with as many
\* rows as its raw file.
C11_ValidateNeverRaises ==
    /\ vpc # "raised"
    /\ (vpc = "returned") =>
          /\ [i \in DOMAIN report |-> report[i].year] = YEARS
          /\ all_valid = (\A y \in Range(YEARS) :
                              agg_rows[y] # NA /\ agg_rows[y] = raw_rows[y])

(***************************************************************************)
(*                             clean_col_name                              *)
(***************************************************************************)

\* Bound of the model: the length of the column names tried.
MaxNameLen == 3

\* A column name is the sequence of its characters.
IdNames ==
    { <<"p", "l", "a", "c", "e", "_", "f", "i", "p", "s">>,
      <<"p", "l", "a", "c", "e", "_", "n", "a", "m", "e">>,
      <<"s", "t", "a", "t", "e", "_", "f", "i", "p", "s">>,
      <<"y", "e", "a", "r">> }

UpperCase == <<"A", "B", "C", "D", "E", "F", "G", "H", "I", "J", "K", "L", "M",
               "N", "O", "P", "Q", "R", "S", "T", "U", "V", "W", "X", "Y", "Z">>

LowerCase == <<"a", "b", "c", "d", "e", "f", "g", "h", "i", "j", "k", "l", "m",
               "n", "o", "p", "q", "r", "s", "t", "u", "v", "w", "x", "y", "z">>

\* str.lower
LowerChar(c) ==
    IF \E i \in DOMAIN UpperCase : UpperCase[i] = c
    THEN LowerCase[CHOOSE i \in DOMAIN UpperCase : UpperCase[i] = c]
    ELSE c

LowerStr(s) == [i \in DOMAIN s |-> LowerChar(s[i])]

\* The characters of the class [!\s:;,\-\(\)\'\"]
SpecialChars == {"!", " ", "\t", "\n", ":", ";", ",", "-", "(", ")", "'", "\""}

\* re.sub(r"[C]+", "_", s): every maximal run of characters of C becomes "_".
RECURSIVE DropWhile(_, _)
DropWhile(s, C) ==
    IF s # <<>> /\ Head(s) \in C THEN DropWhile(Tail(s), C) ELSE s

RECURSIVE SubRuns(_, _)
SubRuns(s, C) ==
    IF s = <<>> THEN <<>>
    ELSE IF Head(s) \in C THEN <<"_">> \o SubRuns(DropWhile(s, C), C)
    ELSE <<Head(s)>> \o SubRuns(Tail(s), C)

Reverse(s) == [i \in DOMAIN s |-> s[Len(s) + 1 - i]]

\* str.strip("_")
Strip(s) == Reverse(DropWhile(Reverse(DropWhile(s, {"_"})), {"_"}))

\* Stripping before the substitutions instead of after them.
clean_col_name_StripFirst(col) ==
    IF col \in IdNames THEN col
    ELSE SubRuns(SubRuns(Strip(LowerStr(col)), SpecialChars), {"_"})

clean_col_name(col) ==
    IF col \in IdNames THEN col
    ELSE Strip(SubRuns(SubRuns(LowerStr(col), SpecialChars), {"_"}))

\* The names tried: every string over NameChars up to MaxNameLen, the four
\* identifier names, and three names that normalise to an identifier name.
NameChars == {"A", "b", "1", " ", "!", "-", "_", "$", "."}

NameInputs ==
    SeqsUpTo(NameChars, MaxNameLen) \cup IdNames
    \cup { <<"Y", "E", "A", "R">>,
           <<"P", "l", "a", "c", "e", " ", "F", "i", "p", "s">>,
           <<"y", "e", "a", "r", "!">> }

InitName ==
    /\ IdlePull
    /\ IdleClean
    /\ IdleAgg
    /\ IdleVal
    /\ IdlePost
    /\ IdleMerge
    /\ IdleLoad
    /\ npc = "in"
    /\ nin \in NameInputs
    /\ nout = <<>>
    /\ nagain = <<>>

\* clean_col_name applied to a column name.
CleanName ==
    /\ npc = "in"
    /\ nout' = clean_col_name(nin)
    /\ npc' = "once"
    /\ UNCHANGED <<nin, nagain>>
    /\ UNCHANGED notName

\* clean_col_name applied to a name it returned.
CleanAgain ==
    /\ npc = "once"
    /\ nagain' = clean_col_name(nout)
    /\ npc' = "twice"
    /\ UNCHANGED <<nin, nout>>
    /\ UNCHANGED notName

NextName == CleanName \/ CleanAgain

SpecName == InitName /\ [][NextName]_vars

\* C12: clean_col_name is idempotent: applied to a name it returned, it returns
\* that name, also for the identifier names and for names that normalise to
\* an identifier name.
C12_Idempotent == (npc = "twice") => nagain = nout

\* "YEAR" normalises to the identifier name "year", which stays "year".
C12_Witness ==
    /\ npc = "twice"
    /\ nin = <<"Y", "E", "A", "R">>
    /\ nout = <<"y", "e", "a", "r">>
    /\ nagain = nout

\* The words of s: its maximal runs of characters outside Sep.
RECURSIVE Words(_, _)
Words(s, Sep) ==
    IF s = <<>> THEN <<>>
    ELSE IF Head(s) \in Sep THEN Words(Tail(s), Sep)
    ELSE LET stop == IF \E i \in DOMAIN s : s[i] \in Sep
                     THEN CHOOSE i \in DOMAIN s :
                              /\ s[i] \in Sep
                              /\ \A j \in 1..(i - 1) : s[j] \notin Sep
                     ELSE Len(s) + 1
         IN  <<SubSeq(s, 1, stop - 1)>> \o Words(SubSeq(s, stop, Len(s)), Sep)

\* The words joined by single underscores.
RECURSIVE Join(_)
Join(ws) ==
    IF ws = <<>> THEN <<>>
    ELSE IF Len(ws) = 1 THEN ws[1]
    ELSE ws[1] \o <<"_">> \o Join(Tail(ws))

Alnum ==
    Range(UpperCase) \cup Range(LowerCase)
    \cup {"0", "1", "2", "3", "4", "5", "6", "7", "8", "9"}

\* C13: for a non-identifier name, every maximal run of characters that are
\* not letters or digits becomes exactly one underscore, the name is
\* lower-cased and has no underscore at either end.
C13_LowercaseUnderscores ==
    (npc # "in" /\ nin \notin IdNames) =>
        nout = Join(Words(LowerStr(nin), Range(nin) \ Alnum))

\* What clean_col_name returns for a non-identifier name: only the runs of
\* underscores and characters of the class [!\s:;,\-\(\)\'\"] are separators;
\* every other character ("$" and "." included) is kept, lower-cased.
CleanNameKeepsOtherChars ==
    (npc # "in" /\ nin \notin IdNames) =>
        nout = Join(Words(LowerStr(nin), SpecialChars \cup {"_"}))

(***************************************************************************)
(*                    collect_year: missing markers                        *)
(***************************************************************************)

\* Bound of the model: the rows of the combined frame.
MaxPostRows == 2

\* A cell of the combined frame is what the JSON held: null, an integer
\* [int |-> n], or a string [str |-> its characters]. A cell made numeric is
\* null or a number [neg, whole, frac], frac being its decimals without
\* trailing zeros.
NullCell == [null |-> TRUE]

IntCell(n) == [int |-> n]

StrCell(s) == [str |-> s]

IsIntCell(c) == "int" \in DOMAIN c

IsStrCell(c) == "str" \in DOMAIN c

Number(neg, whole, frac) == [neg |-> neg, whole |-> whole, frac |-> frac]

DigitChars == <<"0", "1", "2", "3", "4", "5", "6", "7", "8", "9">>

IsDigit(c) == \E i \in DOMAIN DigitChars : DigitChars[i] = c

DigitVal(c) == (CHOOSE i \in DOMAIN DigitChars : DigitChars[i] = c) - 1

RECURSIVE NatOf(_)
NatOf(s) == IF s = <<>> THEN 0
            ELSE 10 * NatOf(SubSeq(s, 1, Len(s) - 1)) + DigitVal(s[Len(s)])

\* str(n) for an integer n.
RECURSIVE StrOfNat(_)
StrOfNat(n) == IF n < 10 THEN <<DigitChars[n + 1]>>
               ELSE StrOfNat(n \div 10) \o <<DigitChars[(n % 10) + 1]>>

StrOfInt(n) == IF n < 0 THEN <<"-">> \o StrOfNat(0 - n) ELSE StrOfNat(n)

\* The decimals of a number: the digits without the trailing zeros.
RECURSIVE TrimZeros(_)
TrimZeros(s) == IF s # <<>> /\ s[Len(s)] = "0"
                THEN TrimZeros(SubSeq(s, 1, Len(s) - 1)) ELSE s

\* The number a string spells, null if it spells none: an optional "-", digits,
\* and optionally a "." with further digits.
ParseNumber(s) ==
    LET neg == s # <<>> /\ Head(s) = "-"
        t == IF neg THEN Tail(s) ELSE s
        dot == IF \E i \in DOMAIN t : t[i] = "."
               THEN CHOOSE i \in DOMAIN t :
                        t[i] = "." /\ \A j \in 1..(i - 1) : t[j] # "."
               ELSE Len(t) + 1
        whole == SubSeq(t, 1, dot - 1)
        frac == SubSeq(t, dot + 1, Len(t))
    IN  IF /\ whole # <<>>
           /\ \A i \in DOMAIN whole : IsDigit(whole[i])
           /\ \A i \in DOMAIN frac : IsDigit(frac[i])
        THEN Number(neg /\ (NatOf(whole) # 0 \/ TrimZeros(frac) # <<>>),
                    NatOf(whole), TrimZeros(frac))
        ELSE NullCell

\* The integers of missing_markers; the list holds each of them as an integer
\* and as the string str() gives for it.
MarkerInts == {-666666666, -999999999, -888888888}

missing_markers ==
    {IntCell(n) : n \in MarkerInts} \cup {StrCell(StrOfInt(n)) : n \in MarkerInts}

\* result.replace(missing_markers, None), for one cell: the None passed for
\* value is what a cell equal to a marker becomes.
ReplaceMarker(c) == IF c \in missing_markers THEN NullCell ELSE c

\* pd.to_numeric(..., errors="coerce"), for one cell.
to_numeric(c) ==
    IF IsIntCell(c)
    THEN Number(c.int < 0, IF c.int < 0 THEN 0 - c.int ELSE c.int, <<>>)
    ELSE IF IsStrCell(c) THEN ParseNumber(c.str)
    ELSE NullCell

\* What a cell of a non-identifier column may hold: null, an integer or a
\* string, among them the markers as integers, integer strings and decimal
\* strings, other numbers, and strings that spell no number.
CellChoices ==
    {NullCell, IntCell(-666666666), IntCell(-888888888), IntCell(5),
     StrCell(StrOfInt(-666666666)), StrCell(StrOfInt(-999999999)),
     StrCell(StrOfInt(-888888888)),
     StrCell(StrOfInt(-666666666) \o <<".", "0">>),
     StrCell(<<"5">>), StrCell(<<"5", ".", "5", "0">>),
     StrCell(<<"N">>), StrCell(<<>>)}

\* The combined frame: the identifier column place_name and one other column.
InitPost ==
    /\ IdlePull
    /\ IdleClean
    /\ IdleAgg
    /\ IdleVal
    /\ IdleName
    /\ IdleMerge
    /\ IdleLoad
    /\ ppc = "combined"
    /\ \E vals \in SeqsUpTo(CellChoices, MaxPostRows) :
          combined = [place_name |-> [i \in DOMAIN vals |-> StrCell(<<"a">>)],
                      value |-> vals]
    /\ post = combined

\* result = result.replace(missing_markers, None), on every column.
ReplaceMarkers ==
    /\ ppc = "combined"
    /\ post' = [n \in DOMAIN post |->
                  [i \in DOMAIN post[n] |-> ReplaceMarker(post[n][i])]]
    /\ ppc' = "replaced"
    /\ UNCHANGED combined
    /\ UNCHANGED notPost

\* The loop making every non-identifier column numeric.
ToNumeric ==
    /\ ppc = "replaced"
    /\ post' = [post EXCEPT !.value = [i \in DOMAIN @ |-> to_numeric(@[i])]]
    /\ ppc' = "numeric"
    /\ UNCHANGED combined
    /\ UNCHANGED notPost

NextPost == ReplaceMarkers \/ ToNumeric

SpecPost == InitPost /\ [][NextPost]_vars

\* The spellings of a marker: the integer, its string, its decimal string.
IsMarkerCell(c) ==
    \E n \in MarkerInts :
        \/ c = IntCell(n)
        \/ c = StrCell(StrOfInt(n))
        \/ c = StrCell(StrOfInt(n) \o <<".", "0">>)

IsMarkerNumber(c) ==
    \E n \in MarkerInts : c = Number(TRUE, 0 - n, <<>>)

\* C14: after the post-processing, every cell of a non-identifier column that
\* held a missing-data code, as an integer, an integer string or a decimal
\* string, is null, no cell holds such a code, and every cell that held a
\* value that is no number is null.
C14_NoSentinelLeft ==
    (ppc = "numeric") =>
        \A i \in DOMAIN post.value :
            /\ IsMarkerCell(combined.value[i]) => post.value[i] = NullCell
            /\ ~IsMarkerNumber(post.value[i])
            /\ (combined.value[i] \in {StrCell(<<"N">>), StrCell(<<>>)})
                  => post.value[i] = NullCell

\* What does hold: the markers spelled as in missing_markers become null, and
\* so does every string that spells no number.
MarkersOfListBecomeNull ==
    (ppc = "numeric") =>
        \A i \in DOMAIN post.value :
            /\ combined.value[i] \in missing_markers => post.value[i] = NullCell
            /\ (combined.value[i] \in {StrCell(<<"N">>), StrCell(<<>>)})
                  => post.value[i] = NullCell

(***************************************************************************)
(*               Claims about the waits of the ACS puller                  *)
(***************************************************************************)

\* C15: every failed attempt that is followed by another attempt for the same
\* pair is followed by the backoff wait, 1 second after the first attempt and
\* 2 seconds after the second, whatever the failure was (request error, JSON
\* decode error or HTTP error status other than 404); no backoff wait follows
\* the last attempt.
C15_BackoffBetweenAttempts ==
    \A k \in DOMAIN log :
        /\ (k < Len(log)) => (10 * Pow2(k - 1)) \in Range(log[k].slept)
        /\ (k = MAX_ATTEMPTS) => log[k].slept \in {<<>>, <<RATE_LIMIT>>}

\* C16: the rate-limit delay follows every request before the next request is
\* issued: every attempt that another attempt follows, and the last attempt of
\* every pair the loop has left, whatever it ended in.
C16_DelayAfterEveryRequest ==
    \A k \in DOMAIN log :
        (k < Len(log) \/ (logTask < task /\ pc = "collect")) =>
            RATE_LIMIT \in Range(log[k].slept)

(***************************************************************************)
(*          Claims about the year-over-year columns of the cleaner         *)
(***************************************************************************)

\* C17: every column <Y>_yoy holds (value[Y] - value[Y-1]) / value[Y-1] for the
\* calendar year Y-1, and there is one such column for every year column after
\* the first, whatever year columns the input files have, also when a year
\* between the first and the last is missing.
C17_YoYAgainstPreviousYear ==
    (cpc = "done") =>
        \A i \in 1..Len(result) :
            LET years == DOMAIN result[i].pop
            IN  /\ DOMAIN result[i].yoy = {y \in years : \E z \in years : z < y}
                /\ \A y \in DOMAIN result[i].yoy :
                      /\ (y - 1) \in years
                      /\ result[i].yoy[y] =
                            YoY(result[i].pop[y], result[i].pop[y - 1])

\* What does hold: <Y>_yoy is computed against the year column before Y in
\* year_cols, which is the calendar year Y-1 when no year is missing.
YoYAgainstPreviousColumn ==
    (cpc = "done") =>
        \A i \in 1..Len(result) :
            LET years == DOMAIN result[i].pop
            IN  /\ DOMAIN result[i].yoy = {y \in years : \E z \in years : z < y}
                /\ \A y \in DOMAIN result[i].yoy :
                      /\ result[i].yoy[y] =
                            YoY(result[i].pop[y],
                                result[i].pop[PrevYear(years, y)])
                      /\ (years = 2000..2024) => PrevYear(years, y) = y - 1

(***************************************************************************)
(*                         Claims about safe_sum                           *)
(***************************************************************************)

\* What pattern p adds to row i of a bucket: the cell of the column get_col
\* matches for p, 0 if that cell is null or no column matches.
Added(p, i) ==
    LET matches == SelectSeq(df.columns, LAMBDA c : Contains(c, p))
    IN  IF matches = <<>> \/ df.col[matches[1]][i] = NA THEN 0
        ELSE Get(df.col[matches[1]][i])

\* C18: a column built by safe_sum has no null: a null cell of a matched column
\* adds 0, a pattern that matches no column adds 0, and when none of the
\* patterns matches a column the result is all zero, one entry per input row.
C18_SafeSumNeverNull ==
    (apc = "done") =>
        \A c \in Buckets :
            /\ Len(agg_result.col[c.name]) = Len(raw.index)
            /\ \A i \in DOMAIN raw.index :
                  /\ agg_result.col[c.name][i] # NA
                  /\ agg_result.col[c.name][i] =
                        Some(SumSeq([k \in DOMAIN c.patterns |->
                                        Added(c.patterns[k], i)]))
                  /\ (\A k \in DOMAIN c.patterns :
                         \A n \in Range(df.columns) : ~Contains(n, c.patterns[k]))
                        => agg_result.col[c.name][i] = Some(0)

\* A null grade_9 cell next to a grade_10 cell holding 2: the high-school
\* bucket of the row is 2.
C18_Witness ==
    /\ apc = "done"
    /\ Grade(9) \in Range(raw.columns)
    /\ Grade(10) \in Range(raw.columns)
    /\ Len(raw.index) >= 1
    /\ raw.col[Grade(9)][1] = NA
    /\ raw.col[Grade(10)][1] = Some(2)
    /\ agg_result.col[<<"school_enrollment_high_school">>][1] = Some(2)

(***************************************************************************)
(*                 collect_year: per-state accumulation                    *)
(***************************************************************************)

\* Bound of the model: the groups that return a frame for the state.
MaxMergeGroups == 2

\* A frame here is its column names in order and its rows in order, a row
\* being a function from the column names to cells (NA or Some(value)). A
\* column name is a sequence of pieces, so that a suffixed name can be told
\* from the name it was made from.
ColGEO == <<"GEO_ID">>
ColNAME == <<"NAME">>
ColState == <<"state">>
ColPlace == <<"place">>

\* s < t for two tuples of integer cells, as merge sorts its keys: nulls last.
CellLess(a, b) == a # NA /\ (b = NA \/ Get(a) < Get(b))

KeyLess(s, t) ==
    \E i \in DOMAIN s :
        /\ CellLess(s[i], t[i])
        /\ \A j \in 1..(i - 1) : s[j] = t[j]

RECURSIVE SortedKeys(_)
SortedKeys(S) ==
    IF S = {} THEN <<>>
    ELSE LET m == CHOOSE x \in S : \A y \in S \ {x} : KeyLess(x, y)
         IN  <<m>> \o SortedKeys(S \ {m})

\* L.merge(R, on=on, how="outer"): the left columns, then the right columns
\* that are no keys; a column of both sides that is no key gets the suffixes
\* _x and _y; the rows of a key of both sides are paired, the rows of a key
\* of one side are filled with nulls; the keys come out sorted.
MergeOuter(L, R, on) ==
    LET overlap == (Range(L.columns) \cap Range(R.columns)) \ Range(on)
        lname(c) == IF c \in overlap THEN c \o <<"_x">> ELSE c
        rname(c) == IF c \in overlap THEN c \o <<"_y">> ELSE c
        rcols == SelectSeq(R.columns, LAMBDA c : c \notin Range(on))
        KeyOf(r) == [i \in DOMAIN on |-> r[on[i]]]
        keys == SortedKeys({KeyOf(L.rows[i]) : i \in DOMAIN L.rows}
                           \cup {KeyOf(R.rows[i]) : i \in DOMAIN R.rows})
        Row(k, l, r) ==
            [n \in {lname(c) : c \in Range(L.columns)}
                   \cup {rname(c) : c \in Range(rcols)} |->
                IF \E c \in Range(on) : c = n
                THEN k[CHOOSE i \in DOMAIN on : on[i] = n]
                ELSE IF \E c \in Range(L.columns) : lname(c) = n
                THEN IF l = 0 THEN NA
                     ELSE L.rows[l][CHOOSE c \in Range(L.columns) : lname(c) = n]
                ELSE IF r = 0 THEN NA
                     ELSE R.rows[r][CHOOSE c \in Range(rcols) : rname(c) = n]]
        RowsOf(k) ==
            LET ls == SelectSeq([i \in DOMAIN L.rows |-> i],
                                LAMBDA i : KeyOf(L.rows[i]) = k)
                rs == SelectSeq([i \in DOMAIN R.rows |-> i],
                                LAMBDA i : KeyOf(R.rows[i]) = k)
            IN  IF rs = <<>> THEN [a \in DOMAIN ls |-> Row(k, ls[a], 0)]
                ELSE IF ls = <<>> THEN [b \in DOMAIN rs |-> Row(k, 0, rs[b])]
                ELSE Flatten([a \in DOMAIN ls |->
                                 [b \in DOMAIN rs |-> Row(k, ls[a], rs[b])]])
    IN  [columns |-> [i \in DOMAIN L.columns |-> lname(L.columns[i])]
                     \o [i \in DOMAIN rcols |-> rname(rcols[i])],
         rows |-> Flatten([a \in DOMAIN keys |-> RowsOf(keys[a])])]

\* df[cols]
Project(d, cols) ==
    [columns |-> cols,
     rows |-> [i \in DOMAIN d.rows |-> [n \in Range(cols) |-> d.rows[i][n]]]]

merge_cols(d) ==
    <<ColState, ColPlace>>
    \o (IF ColNAME \in Range(d.columns) THEN <<ColNAME>> ELSE <<>>)

\* new_cols of collect_year.
new_cols(e, d) ==
    SelectSeq(d.columns, LAMBDA c : c \notin Range(e.columns)
                                      \/ c \in Range(merge_cols(d)))

\* The on= argument of the merge.
MergeOn(d) == SelectSeq(merge_cols(d), LAMBDA c : c \in Range(d.columns))

\* merge raises KeyError for a key column that the left frame does not have.
MergeRaises(e, d) == \E c \in Range(MergeOn(d)) : c \notin Range(e.columns)

\* existing_df.merge(df[new_cols], on=[...], how="outer")
MergeStep(e, d) == MergeOuter(e, Project(d, new_cols(e, d)), MergeOn(d))

\* The variable column of the k-th group that returns a frame.
MergeVarCodes == <<"B01001_001E", "B01003_001E", "B02003_001E">>

PlaceLists == {<<1>>, <<2>>, <<1, 2>>, <<2, 1>>}

\* The frame pd.DataFrame(data[2:], columns=codes) of the k-th group: GEO_ID,
\* NAME if the response has it, the group's variable, state and place, with one
\* row per place returned; the variable of the first row may be null.
GroupFrame(k, hasName, places, firstNull) ==
    LET columns == <<ColGEO>> \o (IF hasName THEN <<ColNAME>> ELSE <<>>)
                   \o << <<MergeVarCodes[k]>>, ColState, ColPlace >>
    IN  [columns |-> columns,
         rows |-> [i \in DOMAIN places |-> [n \in Range(columns) |->
                    CASE n = ColGEO -> Some(100 + places[i])
                      [] n = ColNAME -> Some(10 + places[i])
                      [] n = ColState -> Some(1)
                      [] n = ColPlace -> Some(places[i])
                      [] OTHER -> IF firstNull /\ i = 1 THEN NA ELSE Some(k)]]]

GroupFrames(k) ==
    {GroupFrame(k, hasName, places, firstNull) :
        hasName \in BOOLEAN, places \in PlaceLists, firstNull \in BOOLEAN}

\* One state of collect_year, before its first group.
InitMerge ==
    /\ IdlePull
    /\ IdleClean
    /\ IdleAgg
    /\ IdleVal
    /\ IdleName
    /\ IdlePost
    /\ IdleLoad
    /\ mpc = "run"
    /\ existing_df = {}
    /\ merged_in = <<>>

\* "Merge into state data" for a frame d, existing_df being None.
StoreFirst ==
    /\ mpc = "run"
    /\ existing_df = {}
    /\ Len(merged_in) < MaxMergeGroups
    /\ \E d \in GroupFrames(Len(merged_in) + 1) :
          /\ existing_df' = {d}
          /\ merged_in' = Append(merged_in, d)
    /\ UNCHANGED mpc
    /\ UNCHANGED notMerge

\* "Merge into state data" for a frame d, existing_df being a frame. The
\* KeyError of the merge is raised outside the try of collect_year.
MergeNext ==
    /\ mpc = "run"
    /\ existing_df # {}
    /\ Len(merged_in) < MaxMergeGroups
    /\ \E d \in GroupFrames(Len(merged_in) + 1) :
          /\ merged_in' = Append(merged_in, d)
          /\ IF MergeRaises(Get(existing_df), d)
             THEN /\ mpc' = "raised"
                  /\ UNCHANGED existing_df
             ELSE /\ existing_df' = {MergeStep(Get(existing_df), d)}
                  /\ UNCHANGED mpc
    /\ UNCHANGED notMerge

NextMerge == StoreFirst \/ MergeNext

SpecMerge == InitMerge /\ [][NextMerge]_vars

\* The state's frame has every column name once and none with a suffix, no
\* two rows for one state, place and NAME, and a row for every place that a
\* group returned.
FrameInOrder ==
    (existing_df # {}) =>
        LET f == Get(existing_df)
            key == SelectSeq(<<ColState, ColPlace, ColNAME>>,
                             LAMBDA c : c \in Range(f.columns))
        IN  /\ \A i, j \in DOMAIN f.columns :
                  i # j => f.columns[i] # f.columns[j]
            /\ Range(f.columns) =
                  UNION {Range(merged_in[k].columns) : k \in DOMAIN merged_in}
            /\ \A i, j \in DOMAIN f.rows :
                  (\A c \in Range(key) : f.rows[i][c] = f.rows[j][c]) => i = j
            /\ \A k \in DOMAIN merged_in : \A a \in DOMAIN merged_in[k].rows :
                  \E i \in DOMAIN f.rows :
                      f.rows[i][ColPlace] = merged_in[k].rows[a][ColPlace]

\* C19: after merging the frames of any sequence of groups for one state, the
\* state's frame has every column name exactly once (no column is added again,
\* none with a suffix), the merge is keyed on state, place and, if present,
\* NAME, and every place a group returned has a row.
C19_AccumulationMerges == mpc # "raised" /\ FrameInOrder

\* What does hold: as long as no merge has raised, the frame is in order.
AccumulationUnlessRaised == (mpc # "raised") => FrameInOrder

(***************************************************************************)
(*              load_and_filter_cities: the encoding loop                  *)
(***************************************************************************)

\* Bound of the model: the number of bytes of the file.
MaxFileBytes == 3

ENCODINGS == <<"utf-8", "latin-1", "cp1252">>

\* A UTF-8 continuation byte.
IsCont(b) == 128 <= b /\ b <= 191

\* Can the bytes be decoded as UTF-8? A byte below 128 stands alone; a lead
\* byte 0xC2-0xDF, 0xE0-0xEF or 0xF0-0xF4 takes one, two or three continuation
\* bytes, the first of them limited after 0xE0, 0xED, 0xF0 and 0xF4.
RECURSIVE Utf8Valid(_)
Utf8Valid(b) ==
    IF b = <<>> THEN TRUE
    ELSE LET h == Head(b)
             n == IF h < 128 THEN 0
                  ELSE IF 194 <= h /\ h <= 223 THEN 1
                  ELSE IF 224 <= h /\ h <= 239 THEN 2
                  ELSE IF 240 <= h /\ h <= 244 THEN 3
                  ELSE 4
         IN  /\ n < 4
             /\ Len(b) >= n + 1
             /\ \A i \in 2..(n + 1) : IsCont(b[i])
             /\ (h = 224) => b[2] >= 160
             /\ (h = 237) => b[2] <= 159
             /\ (h = 240) => b[2] >= 144
             /\ (h = 244) => b[2] <= 143
             /\ Utf8Valid(SubSeq(b, n + 2, Len(b)))

\* The bytes cp1252 has no character for.
Cp1252Undefined == {129, 141, 143, 144, 157}

\* Does decoding the bytes with the encoding succeed? Latin-1 has a character
\* for every byte.
Decodes(e, b) ==
    CASE e = "utf-8" -> Utf8Valid(b)
      [] e = "latin-1" -> TRUE
      [] e = "cp1252" -> \A i \in DOMAIN b : b[i] \notin Cp1252Undefined

\* The loop going on after an encoding that decoded the file.
BreaksLoop_Never(decoded) == FALSE

\* "break" after pd.read_csv returned.
BreaksLoop(decoded) == decoded

\* The bytes tried: "A", the two bytes of UTF-8 "n with tilde", its Latin-1
\* byte (a UTF-8 lead byte), and a byte cp1252 does not define (a UTF-8
\* continuation byte).
ByteChoices == {65, 195, 177, 241, 129}

InitLoad ==
    /\ IdlePull
    /\ IdleClean
    /\ IdleAgg
    /\ IdleVal
    /\ IdleName
    /\ IdlePost
    /\ IdleMerge
    /\ lpc = "loop"
    /\ csv_bytes \in {{}} \cup {{b} : b \in SeqsUpTo(ByteChoices, MaxFileBytes)}
    /\ enc_i = 1
    /\ tried = <<>>
    /\ df_enc = ""

\* One pass of "for encoding in [...]": pd.read_csv raises FileNotFoundError
\* (not caught) for a missing file and UnicodeDecodeError (caught) for bytes
\* the encoding cannot decode.
TryEncoding ==
    /\ lpc = "loop"
    /\ enc_i <= Len(ENCODINGS)
    /\ tried' = Append(tried, ENCODINGS[enc_i])
    /\ IF csv_bytes = {}
       THEN /\ lpc' = "raised"
            /\ UNCHANGED <<enc_i, df_enc>>
       ELSE LET decoded == Decodes(ENCODINGS[enc_i], Get(csv_bytes))
            IN  /\ df_enc' = (IF decoded THEN ENCODINGS[enc_i] ELSE df_enc)
                /\ IF BreaksLoop(decoded)
                   THEN /\ lpc' = "mask"
                        /\ UNCHANGED enc_i
                   ELSE /\ enc_i' = enc_i + 1
                        /\ lpc' = (IF enc_i = Len(ENCODINGS) THEN "mask"
                                   ELSE "loop")
    /\ UNCHANGED csv_bytes
    /\ UNCHANGED notLoad

\* The mask and the return: df is read, which raises UnboundLocalError when no
\* pass of the loop assigned it.
FilterCities ==
    /\ lpc = "mask"
    /\ lpc' = (IF df_enc = "" THEN "raised" ELSE "returned")
    /\ UNCHANGED <<csv_bytes, enc_i, tried, df_enc>>
    /\ UNCHANGED notLoad

NextLoad == TryEncoding \/ FilterCities

SpecLoad == InitLoad /\ [][NextLoad]_vars

\* C20: the encodings are tried in the order UTF-8, Latin-1, CP1252; the first
\* one that decodes the file is used and none after it is tried; and when no
\* encoding of the list decodes the file the function raises and returns no
\* frame, so that the run writes no output.
C20_EncodingOrder ==
    /\ tried = SubSeq(ENCODINGS, 1, Len(tried))
    /\ (df_enc # "") =>
          /\ Decodes(df_enc, Get(csv_bytes))
          /\ tried[Len(tried)] = df_enc
          /\ \A i \in 1..(Len(tried) - 1) : ~Decodes(tried[i], Get(csv_bytes))
    /\ (lpc = "returned") => df_enc # ""
    /\ (lpc \in {"returned", "raised"} /\ csv_bytes # {}
          /\ \A i \in DOMAIN ENCODINGS : ~Decodes(ENCODINGS[i], Get(csv_bytes)))
          => (lpc = "raised" /\ tried = ENCODINGS)

\* A file holding the Latin-1 byte of "n with tilde": UTF-8 fails, Latin-1 is
\* used, CP1252 is not tried.
C20_Witness ==
    /\ lpc = "returned"
    /\ csv_bytes = {<<65, 241>>}
    /\ tried = <<"utf-8", "latin-1">>
    /\ df_enc = "latin-1"

====
